---- MODULE Spec2Model ----
(***************************************************************************)
(* FileCachingServer: the persistent cache (services/cache.js), the        *)
(* outbound fetch (services/fetcher.js) and the /GetURL and /Contents      *)
(* routes, as a state machine over the cache directory, the in-memory      *)
(* index and the asynchronous calls in flight.                             *)
(*                                                                         *)
(* Every await of the source is one step of a call, so calls interleave    *)
(* exactly where Node's event loop lets them.  Files hold sequences:       *)
(* bytes for a content artifact, JSON tokens for a document.               *)
(*                                                                         *)
(* Line numbers of hasher.js, fetcher.js and cache.js are lines of         *)
(* src/services/hasher.js, which carries the three one after the other.    *)
(***************************************************************************)
EXTENDS Integers, Sequences, FiniteSets, TLC

(* ------------------------------ bounds -------------------------------- *)
\* concurrent calls (requests) the model runs side by side
MaxTasks == 2
\* longest response body, in bytes
MaxLen == 1
\* calls started in one behaviour
MaxCalls == 3
\* disturbances in one behaviour: artifact files deleted from outside, and
\* crashes of the process
MaxFaults == 1

(* ----------------------------- universes ------------------------------ *)
URLS == {"ua", "ub"}
Bytes == {1}
Tasks == 1..MaxTasks
Payloads == UNION {[1..n -> Bytes] : n \in 0..MaxLen}

\* what the origin may answer: a status, its response headers, and (drawn
\* separately) a body
HtmlHeaders == << <<"content-type", "text/html">>, <<"etag", "v1">> >>
BareHeaders == << <<"etag", "v1">> >>
OriginResponses ==
    { [status |-> 200, headers |-> HtmlHeaders],
      [status |-> 299, headers |-> BareHeaders],
      [status |-> 300, headers |-> HtmlHeaders],
      [status |-> 404, headers |-> BareHeaders] }

\* the descriptor fetchURL builds from an answer (fetcher.js, lines 51-65):
\* the content type is the content-type header, or the default
ContentTypeOf(headers) ==
    LET at == {i \in 1..Len(headers) : headers[i][1] = "content-type"}
    IN  IF at = {} THEN "application/octet-stream"
        ELSE headers[CHOOSE i \in at : TRUE][2]

Descriptor(r) ==
    [statusCode |-> r.status, headers |-> r.headers,
     contentType |-> ContentTypeOf(r.headers)]

\* what a direct caller of set() passes: every payload with one descriptor,
\* and one payload with another
Samples ==
    {[response |-> Descriptor([status |-> 200, headers |-> HtmlHeaders]),
      content |-> c] : c \in Payloads}
    \cup {[response |-> Descriptor([status |-> 404, headers |-> BareHeaders]),
           content |-> <<>>]}

(* ------------------------------ helpers ------------------------------- *)
\* hasher.js hashURL: SHA-256 hex digest; distinct URLs of the model get
\* distinct digests
hashURL(url) ==
    CASE url = "ua" -> "h1"
      [] url = "ub" -> "h2"
      [] OTHER -> "h3"

Hashes == {hashURL(u) : u \in URLS}

\* path.join(cacheDir, 'index.json'), path.join(entriesDir, hash + ...)
indexPath == <<"index.json">>
contentPathOf(hash) == <<"entries", hash, "content">>
metaPathOf(hash) == <<"entries", hash, "meta.json">>
\* the sibling path  p + '.tmp'
TempPath(p) == p \o <<"tmp">>

FinalPaths == {indexPath} \cup {contentPathOf(h) : h \in Hashes}
                          \cup {metaPathOf(h) : h \in Hashes}
Paths == FinalPaths \cup {TempPath(p) : p \in FinalPaths}

NoFile == [ex |-> FALSE, data |-> <<>>]
File(d) == [ex |-> TRUE, data |-> d]

(* ------------------------------- JSON --------------------------------- *)
\* A document is the token sequence  <<"{">>, member, ..., <<"}">> .
Open == <<"{">>
Close == <<"}">>

\* JSON.stringify(index, null, 2): one member per index record, in the
\* object's own (insertion) order
StringifyIndex(ix) ==
    <<Open>> \o
    [i \in 1..Len(ix) |->
        <<"rec", ix[i].hash, ix[i].url, ix[i].byteSize, ix[i].cachedAt>>] \o
    <<Close>>

IsDocument(doc) ==
    /\ Len(doc) >= 2
    /\ doc[1] = Open
    /\ doc[Len(doc)] = Close
    /\ \A i \in 2..(Len(doc) - 1) : doc[i] # Open /\ doc[i] # Close

\* JSON.parse of index.json; a text that is no document throws SyntaxError
ParsesAsIndex(doc) ==
    /\ IsDocument(doc)
    /\ \A i \in 2..(Len(doc) - 1) : doc[i][1] = "rec"

ParseIndex(doc) ==
    [i \in 1..(Len(doc) - 2) |->
        [hash |-> doc[i + 1][2], url |-> doc[i + 1][3],
         byteSize |-> doc[i + 1][4], cachedAt |-> doc[i + 1][5]]]

\* JSON.stringify(metadata, null, 2): the members in the order set() lists
\* them
MetaFields == <<"url", "hash", "contentType", "statusCode", "byteSize",
                "cachedAt", "headers">>

RECURSIVE Members(_, _)
Members(m, i) ==
    IF i > Len(MetaFields) THEN <<>>
    ELSE << <<"member", MetaFields[i], m[MetaFields[i]]>> >>
         \o Members(m, i + 1)

StringifyMeta(m) == <<Open>> \o Members(m, 1) \o <<Close>>

\* a document with every member of a metadata object
ParsesAsMeta(doc) ==
    /\ IsDocument(doc)
    /\ \A i \in 2..(Len(doc) - 1) : doc[i][1] = "member"
    /\ \A k \in 1..Len(MetaFields) :
          \E i \in 2..(Len(doc) - 1) : doc[i][2] = MetaFields[k]

\* the value of member `name` of a parsed document: the last one wins
MemberOf(doc, name) ==
    LET at == {i \in 2..(Len(doc) - 1) : doc[i][2] = name}
    IN  doc[CHOOSE i \in at : \A j \in at : j <= i][3]

ParseMeta(doc) == [f \in {MetaFields[i] : i \in 1..Len(MetaFields)} |->
                      MemberOf(doc, f)]

(* ------------------------------- state -------------------------------- *)
VARIABLES
    proc,     \* the process: "down", "init" (initializeCache running), "up",
              \* "failed" (initializeCache threw)
    index,    \* cache.js `index`: the records in the object's key order
    files,    \* the cache directory: path -> file
    tasks,    \* the calls in flight, one record per slot
    calls,    \* calls started so far; new Date() reads it as the time
    faults,   \* artifact files deleted from outside, and crashes, so far
    hist,     \* history: per URL, the last two set() calls that returned
              \* with no other call for that URL overlapping them, since the
              \* last disturbance of that URL (deletion, failed or torn set);
              \* the newer one last, the older one with its content only
    cached,   \* history: URLs a set() stored since the process started,
              \* less those whose artifacts were deleted since
    pure      \* history: nothing but undisturbed set() calls changed the cache

vars == <<proc, index, files, tasks, calls, faults, hist, cached, pure>>

NoFd == <<>>
\* a descriptor whose file no path names any more
Orphan == <<"unlinked">>
NoResp == [statusCode |-> 0, headers |-> <<>>, contentType |-> ""]
NoMeta == [url |-> "", hash |-> "", contentType |-> "", statusCode |-> 0,
           byteSize |-> 0, cachedAt |-> 0, headers |-> <<>>]
NoRead == [st |-> "none", data |-> <<>>]
NoResult == [tag |-> "none", metadata |-> NoMeta, content |-> <<>>,
             list |-> <<>>, code |-> 0, type |-> ""]

Idle ==
    [kind |-> "none",      \* the call: get, set, list, geturl, contents, init
     fn |-> "none",        \* the function of cache.js / fetcher.js it is in
     pc |-> "idle",        \* the await it is suspended at
     url |-> "",
     resp |-> NoResp, content |-> <<>>, metadata |-> NoMeta,
     path |-> NoFd,        \* the final path of the write in progress
     buf |-> <<>>,         \* the data of the write in progress
     fd |-> NoFd,          \* where the file opened for writing now lives
     metaData |-> NoRead, contentData |-> NoRead,
     timer |-> FALSE,      \* fetchURL's timeout timer is armed
     result |-> NoResult,
     solo |-> TRUE,        \* history: no call for the same URL overlapped
                           \* it and no artifact of the URL was deleted
     late |-> FALSE,       \* history: started with the URL in `cached`
     fetched |-> FALSE]    \* history: the request called fetchURL

InFlight(tk) == tk.pc \notin {"idle", "done"}

(* ----------------------------- the index ------------------------------ *)
IndexHas(ix, hash) == \E i \in 1..Len(ix) : ix[i].hash = hash

IndexAt(ix, hash) == ix[CHOOSE i \in 1..Len(ix) : ix[i].hash = hash]

\* a variant of IndexPut that adds a record without looking for the key;
\* C2_Overwrite tells the two apart
IndexPut_Append(ix, rec) == Append(ix, rec)

\* index[hash] = rec : an existing key keeps its place
IndexPut(ix, rec) ==
    IF IndexHas(ix, rec.hash)
    THEN [i \in 1..Len(ix) |-> IF ix[i].hash = rec.hash THEN rec ELSE ix[i]]
    ELSE Append(ix, rec)

\* delete index[hash]
IndexDelete(ix, hash) == SelectSeq(ix, LAMBDA r : r.hash # hash)

\* cache.js list(): Object.values(index).map(({url, byteSize}) => ...)
list(ix) == [i \in 1..Len(ix) |-> [url |-> ix[i].url, byteSize |-> ix[i].byteSize]]

(* --------------------------- the file system -------------------------- *)
\* open(path, 'w'): creates the file or truncates it
FsOpen(fs, p) == [fs EXCEPT ![p] = File(<<>>)]

\* write(fd, data) at offset 0: what the file held beyond the data stays
Overlay(old, data) == data \o SubSeq(old, Len(data) + 1, Len(old))

FsWrite(fs, fd, data) ==
    IF fd = Orphan THEN fs
    ELSE [fs EXCEPT ![fd] = File(Overlay(fs[fd].data, data))]

\* rename(src, dst): dst now names src's file, src names nothing
FsRename(fs, src, dst) == [fs EXCEPT ![dst] = fs[src], ![src] = NoFile]

\* an open descriptor follows its file through a rename
FdAfterRename(fd, src, dst) ==
    IF fd = dst THEN Orphan ELSE IF fd = src THEN dst ELSE fd

FdAfterUnlink(fd, p) == IF fd = p THEN Orphan ELSE fd

(* ------------------------ how a call moves on ------------------------- *)
\* the slot of a call that has returned: what it was and what it gave
Done(tk, res) ==
    [Idle EXCEPT !.kind = tk.kind, !.url = tk.url, !.pc = "done",
                 !.result = res, !.solo = tk.solo, !.late = tk.late,
                 !.fetched = tk.fetched]

NullResult == [NoResult EXCEPT !.tag = "null"]

\* an error leaves the function the call is in.  get() and set() called
\* directly reject; initializeCache rejects and the server does not start;
\* the /GetURL handler catches it (geturl.js, lines 66-75) and answers 502
Throw(tk) ==
    CASE tk.kind = "geturl" ->
            Done(tk, [NoResult EXCEPT !.tag = "failed", !.code = 502])
      [] tk.kind = "init" -> Done(tk, [NoResult EXCEPT !.tag = "aborted"])
      [] OTHER -> Done(tk, [NoResult EXCEPT !.tag = "error"])

\* fetcher.js fetchURL, lines 19-43: the URL is parsed, only http(s) passes,
\* the timer is armed and fetch() is awaited
IsHttp(url) == url \in URLS

FetchBegin(tk) ==
    IF ~IsHttp(tk.url) THEN Throw([tk EXCEPT !.fetched = TRUE])
    ELSE [tk EXCEPT !.fn = "fetch", !.pc = "fetch_headers", !.timer = TRUE,
                    !.fetched = TRUE, !.metaData = NoRead,
                    !.contentData = NoRead, !.path = NoFd, !.buf = <<>>]

\* a variant of ReturnFromGet whose handler fetches whatever cache.get
\* returned; C8_HitServesFromCache tells the two apart
ReturnFromGet_AlwaysFetch(tk, value) ==
    IF tk.kind = "get" THEN Done(tk, value) ELSE FetchBegin(tk)

\* cache.get() resolves with `value` (null or an entry).  The handler of
\* /GetURL (geturl.js, lines 37-49) answers a hit from the entry and goes
\* on to fetchURL on a miss
ReturnFromGet(tk, value) ==
    IF tk.kind = "get" THEN Done(tk, value)
    ELSE IF value.tag = "entry"
         THEN Done(tk, [value EXCEPT !.tag = "hit", !.code = 200,
                                     !.type = value.metadata.contentType])
         ELSE FetchBegin(tk)

\* a variant of GetBegin that also reads the artifacts of a key the index
\* does not hold when the content file is on disk; C16_IndexGatedMiss tells
\* the two apart
GetBegin_ReadsDisk(tk, ix) ==
    IF /\ ~IndexHas(ix, hashURL(tk.url))
       /\ tk.url \in URLS => ~files[contentPathOf(hashURL(tk.url))].ex
    THEN ReturnFromGet(tk, NullResult)
    ELSE [tk EXCEPT !.fn = "get", !.pc = "get_read",
                    !.metaData = [st |-> "pending", data |-> <<>>],
                    !.contentData = [st |-> "pending", data |-> <<>>]]

\* cache.js get(), lines 136-149: a key the index does not hold is a miss
\* at once; otherwise both artifacts are read at the same time
GetBegin(tk, ix) ==
    IF ~IndexHas(ix, hashURL(tk.url)) THEN ReturnFromGet(tk, NullResult)
    ELSE [tk EXCEPT !.fn = "get", !.pc = "get_read",
                    !.metaData = [st |-> "pending", data |-> <<>>],
                    !.contentData = [st |-> "pending", data |-> <<>>]]

\* cache.js get(), lines 151-152, once both reads have resolved
GetAfterRead(tk) ==
    IF tk.metaData.st = "ok" /\ tk.contentData.st = "ok"
    THEN IF ParsesAsMeta(tk.metaData.data)
         THEN ReturnFromGet(tk,
                 [NoResult EXCEPT !.tag = "entry",
                                  !.metadata = ParseMeta(tk.metaData.data),
                                  !.content = tk.contentData.data])
         ELSE Throw(tk)
    ELSE tk

\* saveIndex(), lines 125-126: the index as it is now is serialised and the
\* write of index.json.tmp is started
SaveIndexBegin(tk, ix) ==
    [tk EXCEPT !.path = indexPath, !.buf = StringifyIndex(ix), !.pc = "open",
               !.metaData = NoRead, !.contentData = NoRead]

\* a variant of SetBegin that stores the default content type instead of
\* the descriptor's; C1_RoundTrip tells the two apart
SetBegin_TypeDropped(tk, response, content, ts) ==
    [tk EXCEPT !.fn = "set", !.resp = response, !.content = content,
               !.metadata = [url |-> tk.url, hash |-> hashURL(tk.url),
                             contentType |-> "application/octet-stream",
                             statusCode |-> response.statusCode,
                             byteSize |-> Len(content),
                             cachedAt |-> ts,
                             headers |-> response.headers],
               !.path = contentPathOf(hashURL(tk.url)), !.buf = content,
               !.pc = "open", !.timer = FALSE]

\* cache.js set(), lines 171-187: the metadata is built and the write of
\* <hash>.content.tmp is started
SetBegin(tk, response, content, ts) ==
    [tk EXCEPT !.fn = "set", !.resp = response, !.content = content,
               !.metadata = [url |-> tk.url, hash |-> hashURL(tk.url),
                             contentType |-> response.contentType,
                             statusCode |-> response.statusCode,
                             byteSize |-> Len(content),
                             cachedAt |-> ts,
                             headers |-> response.headers],
               !.path = contentPathOf(hashURL(tk.url)), !.buf = content,
               !.pc = "open", !.timer = FALSE]

\* a variant of IndexRecord that records no size; C6_List tells the two
\* apart
IndexRecord_NoSize(tk) ==
    [hash |-> hashURL(tk.url), url |-> tk.url,
     byteSize |-> 0, cachedAt |-> tk.metadata.cachedAt]

\* the record set() puts in the index, lines 196-200
IndexRecord(tk) ==
    [hash |-> hashURL(tk.url), url |-> tk.url,
     byteSize |-> Len(tk.content), cachedAt |-> tk.metadata.cachedAt]

\* a variant of IndexAfterRename that puts the record once the content file
\* is in place, before the metadata is written; C11_NoDanglingRecord tells
\* the two apart
IndexAfterRename_Early(tk, ix) ==
    IF tk.fn = "set" /\ tk.path = contentPathOf(hashURL(tk.url))
    THEN IndexPut(ix, IndexRecord(tk))
    ELSE ix

\* the index after the rename of call tk's temporary file over tk.path
IndexAfterRename(tk, ix) ==
    IF tk.fn = "set" /\ tk.path = metaPathOf(hashURL(tk.url))
    THEN IndexPut(ix, IndexRecord(tk))
    ELSE ix

\* what follows the rename: set() goes from the content to the metadata
\* (lines 190-192), from the metadata to the index (lines 195-201) and from
\* the index to its return; get() and initializeCache return
AfterRename(tk, ix) ==
    CASE tk.fn = "set" /\ tk.path = contentPathOf(hashURL(tk.url)) ->
            [tk EXCEPT !.path = metaPathOf(hashURL(tk.url)),
                       !.buf = StringifyMeta(tk.metadata), !.pc = "open"]
      [] tk.fn = "set" /\ tk.path = metaPathOf(hashURL(tk.url)) ->
            SaveIndexBegin(tk, IndexAfterRename(tk, ix))
      [] tk.fn = "set" /\ tk.path = indexPath ->
            IF tk.kind = "set" THEN Done(tk, [NoResult EXCEPT !.tag = "ok"])
            ELSE Done(tk, [NoResult EXCEPT !.tag = "stored", !.code = 200,
                                           !.type = tk.resp.contentType,
                                           !.content = tk.content])
      [] tk.fn = "get" -> ReturnFromGet(tk, NullResult)
      [] OTHER -> Done(tk, [NoResult EXCEPT !.tag = "ready"])

(* ------------------------------ history ------------------------------- *)
OthersOn(t, url) ==
    \E s \in Tasks \ {t} : InFlight(tasks[s]) /\ tasks[s].url = url

\* a call for `url` starts in slot t: the calls for that URL now overlap
Started(t, tk) ==
    [s \in Tasks |->
        IF s = t THEN tk
        ELSE IF InFlight(tasks[s]) /\ tasks[s].url = tk.url
             THEN [tasks[s] EXCEPT !.solo = FALSE]
             ELSE tasks[s]]

NewCall(t, kind, url) ==
    [Idle EXCEPT !.kind = kind, !.url = url, !.solo = ~OthersOn(t, url),
                 !.late = (url \in cached)]

SetEnded(old, tk) == old.fn = "set" /\ tk.pc = "done"
SetSucceeded(tk) == tk.result.tag \in {"ok", "stored"}

HistAfter(old, tk) ==
    IF ~SetEnded(old, tk) THEN hist
    ELSE [hist EXCEPT ![old.url] =
            IF SetSucceeded(tk) /\ tk.solo
            THEN (IF @ = <<>> THEN <<>>
                  ELSE <<[content |-> @[Len(@)].content,
                          metadata |-> NoMeta, response |-> NoResp]>>)
                 \o <<[content |-> old.content, metadata |-> old.metadata,
                        response |-> old.resp]>>
            ELSE <<>>]

CachedAfter(old, tk) ==
    IF SetEnded(old, tk) /\ SetSucceeded(tk) THEN cached \cup {old.url}
    ELSE cached

PureAfter(old, tk) ==
    IF SetEnded(old, tk) THEN pure /\ SetSucceeded(tk) /\ tk.solo ELSE pure

ProcAfter(tk) ==
    IF tk.kind = "init" /\ tk.pc = "done"
    THEN (IF tk.result.tag = "ready" THEN "up" ELSE "failed")
    ELSE proc

\* call t takes a step that leaves the slots as ts, the directory as fs and
\* the index as ix
Commit(t, ts, fs, ix) ==
    /\ tasks' = ts
    /\ files' = fs
    /\ index' = ix
    /\ proc' = ProcAfter(ts[t])
    /\ hist' = HistAfter(tasks[t], ts[t])
    /\ cached' = CachedAfter(tasks[t], ts[t])
    /\ pure' = PureAfter(tasks[t], ts[t])

(* --------------------------- cache.js calls --------------------------- *)
\* a call takes the first slot that holds no call in flight
Free(tk) == ~InFlight(tk)

CanCall(t) ==
    /\ proc = "up"
    /\ Free(tasks[t])
    /\ \A s \in Tasks : s < t => ~Free(tasks[s])
    /\ calls < MaxCalls

\* get(url) is called: lines 135-149
CallGet(t, url) ==
    /\ CanCall(t)
    /\ Commit(t, Started(t, GetBegin(NewCall(t, "get", url), index)),
              files, index)
    /\ calls' = calls + 1
    /\ UNCHANGED faults

\* set(url, response, content) is called: lines 170-187
CallSet(t, url, response, content) ==
    /\ CanCall(t)
    /\ Commit(t, Started(t, SetBegin(NewCall(t, "set", url),
                                     response, content, calls)),
              files, index)
    /\ calls' = calls + 1
    /\ UNCHANGED faults

\* list() is called and returns: lines 210-212
CallList(t) ==
    /\ CanCall(t)
    /\ Commit(t, Started(t, Done(NewCall(t, "list", ""),
                                 [NoResult EXCEPT !.tag = "list",
                                                  !.list = list(index)])),
              files, index)
    /\ calls' = calls + 1
    /\ UNCHANGED faults

\* A read of get()'s Promise.all found its file missing: open() failed with
\* ENOENT in the thread pool.  The rejection reaches get() in a later turn
\* of the event loop, and callbacks of other calls can run before it; until
\* then the call waits at "get_enoent" and the other read no longer counts.
GetEnoent(tk) ==
    [tk EXCEPT !.pc = "get_enoent", !.metaData = NoRead,
               !.contentData = NoRead]

\* the catch block, lines 153-158: the record is dropped from the index as
\* it is now and saveIndex() is started
GetMissing(tk, ix) ==
    SaveIndexBegin(tk, IndexDelete(ix, hashURL(tk.url)))

\* fs.readFile(metaPath, 'utf8') of get() settles: lines 146-152
GetReadMeta(t) ==
    LET tk == tasks[t]
        f == files[metaPathOf(hashURL(tk.url))]
    IN  /\ tk.pc = "get_read"
        /\ tk.metaData.st = "pending"
        /\ IF f.ex
           THEN Commit(t, [tasks EXCEPT ![t] = GetAfterRead(
                              [tk EXCEPT !.metaData =
                                  [st |-> "ok", data |-> f.data]])],
                       files, index)
           ELSE Commit(t, [tasks EXCEPT ![t] = GetEnoent(tk)], files, index)
        /\ UNCHANGED <<calls, faults>>

\* fs.readFile(contentPath) of get() settles: lines 146-152
GetReadContent(t) ==
    LET tk == tasks[t]
        f == files[contentPathOf(hashURL(tk.url))]
    IN  /\ tk.pc = "get_read"
        /\ tk.contentData.st = "pending"
        /\ IF f.ex
           THEN Commit(t, [tasks EXCEPT ![t] = GetAfterRead(
                              [tk EXCEPT !.contentData =
                                  [st |-> "ok", data |-> f.data]])],
                       files, index)
           ELSE Commit(t, [tasks EXCEPT ![t] = GetEnoent(tk)], files, index)
        /\ UNCHANGED <<calls, faults>>

\* get() resumes in its catch block with the ENOENT: lines 153-158
GetCatch(t) ==
    LET tk == tasks[t]
    IN  /\ tk.pc = "get_enoent"
        /\ Commit(t, [tasks EXCEPT ![t] = GetMissing(tk, index)],
                  files, IndexDelete(index, hashURL(tk.url)))
        /\ UNCHANGED <<calls, faults>>

\* a variant of WriteFileOpen that opens the final path itself, with no
\* temporary file; C5_CrashAtomicity tells the two apart
WriteFileOpen_InPlace(t) ==
    LET tk == tasks[t]
    IN  /\ tk.pc = "open"
        /\ Commit(t, [tasks EXCEPT ![t] = [tk EXCEPT !.fd = tk.path,
                                                     !.pc = "write"]],
                  FsOpen(files, tk.path), index)
        /\ UNCHANGED <<calls, faults>>

\* fs.writeFile(path + '.tmp', ...) opens its file (lines 126, 187, 192)
WriteFileOpen(t) ==
    LET tk == tasks[t]
        tmp == TempPath(tk.path)
    IN  /\ tk.pc = "open"
        /\ Commit(t, [tasks EXCEPT ![t] = [tk EXCEPT !.fd = tmp,
                                                     !.pc = "write"]],
                  FsOpen(files, tmp), index)
        /\ UNCHANGED <<calls, faults>>

\* fs.writeFile writes the data and closes the file (lines 126, 187, 192)
WriteFileData(t) ==
    LET tk == tasks[t]
    IN  /\ tk.pc = "write"
        /\ Commit(t, [tasks EXCEPT ![t] = [tk EXCEPT !.fd = NoFd,
                                                     !.pc = "rename"]],
                  FsWrite(files, tk.fd, tk.buf), index)
        /\ UNCHANGED <<calls, faults>>

\* fs.rename(path + '.tmp', path) (lines 127, 188, 193) and what the
\* caller does until its next await; a temporary file that is gone is ENOENT
RenameTemp(t) ==
    LET tk == tasks[t]
        tmp == TempPath(tk.path)
    IN  /\ tk.pc = "rename"
        /\ IF files[tmp].ex
           THEN Commit(t,
                       [s \in Tasks |->
                           IF s = t THEN AfterRename(tk, index)
                           ELSE [tasks[s] EXCEPT
                                   !.fd = FdAfterRename(@, tmp, tk.path)]],
                       FsRename(files, tmp, tk.path),
                       IndexAfterRename(tk, index))
           ELSE Commit(t, [tasks EXCEPT ![t] = Throw(tk)], files, index)
        /\ UNCHANGED <<calls, faults>>

(* --------------------------- the environment -------------------------- *)
ArtifactPaths == {contentPathOf(h) : h \in Hashes} \cup
                 {metaPathOf(h) : h \in Hashes}

UrlOfPath(p) == CHOOSE u \in URLS : p[2] = hashURL(u)

\* somebody outside the process deletes an artifact file
ExternalDelete(p) ==
    /\ files[p].ex
    /\ faults < MaxFaults
    /\ faults' = faults + 1
    /\ files' = [files EXCEPT ![p] = NoFile]
    /\ tasks' = [s \in Tasks |->
                    [tasks[s] EXCEPT
                        !.fd = FdAfterUnlink(@, p),
                        !.solo = @ /\ tasks[s].url # UrlOfPath(p),
                        !.late = @ /\ tasks[s].url # UrlOfPath(p)]]
    /\ hist' = [hist EXCEPT ![UrlOfPath(p)] = <<>>]
    /\ cached' = cached \ {UrlOfPath(p)}
    /\ pure' = FALSE
    /\ UNCHANGED <<proc, index, calls>>

\* the process dies: the memory and the calls in flight are gone, the
\* directory stays as it is
SetInFlight(url) ==
    \E s \in Tasks : InFlight(tasks[s]) /\ tasks[s].fn = "set"
                     /\ tasks[s].url = url

Crash ==
    /\ proc # "down"
    /\ faults < MaxFaults
    /\ faults' = faults + 1
    /\ proc' = "down"
    /\ index' = <<>>
    /\ tasks' = [s \in Tasks |-> Idle]
    /\ hist' = [u \in URLS |-> IF SetInFlight(u) THEN <<>> ELSE hist[u]]
    /\ cached' = {}
    /\ pure' = FALSE
    /\ UNCHANGED <<files, calls>>

(* -------------------------- initializeCache --------------------------- *)
\* server.js line 18 calls initializeCache(config.cacheDir): lines 96-106,
\* up to the await of readFile
Initialize ==
    /\ proc = "down"
    /\ proc' = "init"
    /\ tasks' = [s \in Tasks |->
                    IF s = 1 THEN [Idle EXCEPT !.kind = "init", !.fn = "init",
                                               !.pc = "init_read"]
                    ELSE Idle]
    /\ index' = <<>>
    /\ UNCHANGED <<files, calls, faults, hist, cached, pure>>

\* a variant of InitializeRead that, finding no index.json, starts with the
\* empty index and writes nothing; C10_Startup tells the two apart
InitializeRead_NoPersist(t) ==
    LET tk == tasks[t]
        f == files[indexPath]
    IN  /\ tk.pc = "init_read"
        /\ IF f.ex /\ ~ParsesAsIndex(f.data)
           THEN Commit(t, [tasks EXCEPT ![t] = Throw(tk)], files, index)
           ELSE Commit(t, [tasks EXCEPT ![t] =
                              Done(tk, [NoResult EXCEPT !.tag = "ready"])],
                       files, IF f.ex THEN ParseIndex(f.data) ELSE <<>>)
        /\ UNCHANGED <<calls, faults>>

\* readFile(indexPath) settles: lines 106-116
InitializeRead(t) ==
    LET tk == tasks[t]
        f == files[indexPath]
    IN  /\ tk.pc = "init_read"
        /\ IF ~f.ex
           THEN Commit(t, [tasks EXCEPT ![t] = SaveIndexBegin(tk, <<>>)],
                       files, <<>>)
           ELSE IF ParsesAsIndex(f.data)
                THEN Commit(t, [tasks EXCEPT ![t] =
                                   Done(tk, [NoResult EXCEPT !.tag = "ready"])],
                            files, ParseIndex(f.data))
                ELSE Commit(t, [tasks EXCEPT ![t] = Throw(tk)], files, index)
        /\ UNCHANGED <<calls, faults>>

\* readFile(indexPath) fails with something other than ENOENT (EACCES, EIO)
InitializeReadFails(t) ==
    LET tk == tasks[t]
    IN  /\ tk.pc = "init_read"
        /\ files[indexPath].ex
        /\ Commit(t, [tasks EXCEPT ![t] = Throw(tk)], files, index)
        /\ UNCHANGED <<calls, faults>>

(* ------------------------------ routes -------------------------------- *)
NoUrl == ""
BadUrl == "not a url"
FtpUrl == "ftp://host/file"
RequestURLs == URLS \cup {NoUrl, BadUrl, FtpUrl}

\* new URL(url) accepts it
IsUrl(url) == url \in URLS \cup {FtpUrl}

\* GET /GetURL?url=... arrives: geturl.js, lines 10-37 and cache.js get()
\* up to its first await
GetURL(t, url) ==
    /\ CanCall(t)
    /\ IF url = NoUrl \/ ~IsUrl(url)
       THEN Commit(t, [tasks EXCEPT ![t] =
                          Done([Idle EXCEPT !.kind = "geturl"],
                               [NoResult EXCEPT !.tag = "bad", !.code = 400])],
                   files, index)
       ELSE Commit(t, Started(t, GetBegin(NewCall(t, "geturl", url), index)),
                   files, index)
    /\ calls' = calls + 1
    /\ UNCHANGED faults

\* GET /Contents: contents.js, lines 8-11
Contents(t) ==
    /\ CanCall(t)
    /\ Commit(t, [tasks EXCEPT ![t] =
                     Done([Idle EXCEPT !.kind = "contents"],
                          [NoResult EXCEPT !.tag = "list",
                                           !.list = list(index)])],
              files, index)
    /\ calls' = calls + 1
    /\ UNCHANGED faults

\* a variant of Cacheable with no upper limit; C7_Only2xx tells the two
\* apart
Cacheable_NoUpperBound(statusCode) == statusCode >= 200

\* geturl.js line 52
Cacheable(statusCode) == statusCode >= 200 /\ statusCode < 300

\* fetch() resolves with the response's status and headers: fetcher.js,
\* lines 37-48; the timer is cleared and the body is awaited
FetchHeaders(t, r) ==
    LET tk == tasks[t]
    IN  /\ tk.pc = "fetch_headers"
        /\ Commit(t, [tasks EXCEPT ![t] =
                         [tk EXCEPT !.resp = Descriptor(r), !.timer = FALSE,
                                    !.pc = "fetch_body"]],
                  files, index)
        /\ UNCHANGED <<calls, faults>>

\* response.arrayBuffer() resolves: fetcher.js, lines 48-65, then the
\* handler, geturl.js lines 51-65: a 2xx answer goes to cache.set, any
\* other is answered with its status
FetchBody(t, body) ==
    LET tk == tasks[t]
    IN  /\ tk.pc = "fetch_body"
        /\ IF Cacheable(tk.resp.statusCode)
           THEN Commit(t, [tasks EXCEPT ![t] =
                              SetBegin(tk, tk.resp, body, calls)],
                       files, index)
           ELSE Commit(t, [tasks EXCEPT ![t] =
                              Done(tk, [NoResult EXCEPT
                                          !.tag = "upstream",
                                          !.code = tk.resp.statusCode])],
                       files, index)
        /\ UNCHANGED <<calls, faults>>

\* the network fails while fetch() or arrayBuffer() is pending: fetcher.js,
\* lines 66-79
FetchError(t) ==
    LET tk == tasks[t]
    IN  /\ tk.pc \in {"fetch_headers", "fetch_body"}
        /\ Commit(t, [tasks EXCEPT ![t] = Throw(tk)], files, index)
        /\ UNCHANGED <<calls, faults>>

\* the timer set at line 34 fires: controller.abort() rejects the pending
\* network operation with AbortError, lines 66-72
FetchTimeout(t) ==
    LET tk == tasks[t]
    IN  /\ tk.pc \in {"fetch_headers", "fetch_body"}
        /\ tk.timer
        /\ Commit(t, [tasks EXCEPT ![t] =
                         [Throw(tk) EXCEPT !.result.type = "timeout"]],
                  files, index)
        /\ UNCHANGED <<calls, faults>>

(* --------------------------- specifications --------------------------- *)
EmptyDir == [p \in Paths |-> NoFile]

\* the server before it has ever run, on an empty cache directory
Init ==
    /\ proc = "down"
    /\ index = <<>>
    /\ files = EmptyDir
    /\ tasks = [t \in Tasks |-> Idle]
    /\ calls = 0
    /\ faults = 0
    /\ hist = [u \in URLS |-> <<>>]
    /\ cached = {}
    /\ pure = TRUE

\* cache.js after initializeCache() on an empty cache directory
InitCache ==
    /\ proc = "up"
    /\ index = <<>>
    /\ files = [EmptyDir EXCEPT ![indexPath] = File(StringifyIndex(<<>>))]
    /\ tasks = [t \in Tasks |-> Idle]
    /\ calls = 0
    /\ faults = 0
    /\ hist = [u \in URLS |-> <<>>]
    /\ cached = {}
    /\ pure = TRUE

\* cache.js driven through its exported functions, until the process dies
NextCache ==
    \/ \E t \in Tasks, u \in URLS : CallGet(t, u)
    \/ \E t \in Tasks, u \in URLS, x \in Samples :
          CallSet(t, u, x.response, x.content)
    \/ \E t \in Tasks : CallList(t)
    \/ \E t \in Tasks : GetReadMeta(t)
    \/ \E t \in Tasks : GetReadContent(t)
    \/ \E t \in Tasks : GetCatch(t)
    \/ \E t \in Tasks : WriteFileOpen(t)
    \/ \E t \in Tasks : WriteFileData(t)
    \/ \E t \in Tasks : RenameTemp(t)
    \/ \E p \in ArtifactPaths : ExternalDelete(p)
    \/ Crash

Spec == InitCache /\ [][NextCache]_vars

\* the server: start, requests, crashes and restarts
\* (nothing deletes a file here, so no read of get() finds one missing and
\* get's catch block is not among the steps)
NextServer ==
    \/ Initialize
    \/ \E t \in Tasks : InitializeRead(t)
    \/ \E t \in Tasks : InitializeReadFails(t)
    \/ \E t \in Tasks, u \in RequestURLs : GetURL(t, u)
    \/ \E t \in Tasks : Contents(t)
    \/ \E t \in Tasks : GetReadMeta(t)
    \/ \E t \in Tasks : GetReadContent(t)
    \/ \E t \in Tasks, r \in OriginResponses : FetchHeaders(t, r)
    \/ \E t \in Tasks, b \in Payloads : FetchBody(t, b)
    \/ \E t \in Tasks : FetchError(t)
    \/ \E t \in Tasks : FetchTimeout(t)
    \/ \E t \in Tasks : WriteFileOpen(t)
    \/ \E t \in Tasks : WriteFileData(t)
    \/ \E t \in Tasks : RenameTemp(t)
    \/ Crash

SpecServer == Init /\ [][NextServer]_vars

(* ------------------------------ claims -------------------------------- *)
\* the step is the one in which the call in slot t returns
Returns(t) ==
    /\ tasks'[t].pc = "done"
    /\ \/ InFlight(tasks[t])
       \/ calls' > calls /\ CanCall(t)

Newest(url) == hist[url][Len(hist[url])]

\* C1 (round trip): when a get(u) returns that no other call for u
\* overlapped, and a set(u, d, c) had returned before it with no other call
\* for u overlapping it and no artifact of u deleted since, the get returns
\* an entry whose content is c, whose metadata.contentType is d.contentType
\* and whose metadata.byteSize is the length of c.
C1_RoundTrip ==
    [][\A t \in Tasks :
          (/\ Returns(t)
           /\ tasks'[t].kind = "get"
           /\ tasks'[t].solo
           /\ hist[tasks'[t].url] # <<>>)
          => LET r == tasks'[t].result
                 h == Newest(tasks'[t].url)
             IN  /\ r.tag = "entry"
                 /\ r.content = h.content
                 /\ r.metadata.contentType = h.response.contentType
                 /\ r.metadata.byteSize = Len(h.content)]_vars

\* a get has returned the one-byte payload a set stored for its URL
C1_Witness ==
    \E t \in Tasks :
        /\ tasks[t].kind = "get"
        /\ tasks[t].pc = "done"
        /\ tasks[t].solo
        /\ tasks[t].result.tag = "entry"
        /\ hist[tasks[t].url] # <<>>
        /\ Newest(tasks[t].url).content = <<1>>
        /\ tasks[t].result.content = <<1>>
        /\ tasks[t].result.metadata.contentType = "text/html"

\* C2 (overwrite): when two set calls for u returned one after the other
\* (no other call for u overlapping either, nothing deleted since) and a
\* get(u) then returns, it returns the second payload with the metadata
\* built for it, not the first payload, and the index holds exactly one
\* record for u.
C2_Overwrite ==
    [][\A t \in Tasks :
          (/\ Returns(t)
           /\ tasks'[t].kind = "get"
           /\ tasks'[t].solo
           /\ Len(hist[tasks'[t].url]) = 2)
          => LET r == tasks'[t].result
                 u == tasks'[t].url
                 first == hist[u][1]
                 second == hist[u][2]
             IN  /\ r.tag = "entry"
                 /\ r.content = second.content
                 /\ r.metadata = second.metadata
                 /\ first.content # second.content => r.content # first.content
                 /\ Cardinality({i \in 1..Len(index') :
                                    index'[i].hash = hashURL(u)}) = 1
                 /\ Cardinality({i \in 1..Len(index') :
                                    index'[i].url = u}) = 1]_vars

\* a get has returned the second of two different payloads set for its URL
C2_Witness ==
    \E t \in Tasks :
        /\ tasks[t].kind = "get"
        /\ tasks[t].pc = "done"
        /\ tasks[t].solo
        /\ Len(hist[tasks[t].url]) = 2
        /\ hist[tasks[t].url][1].content # hist[tasks[t].url][2].content
        /\ tasks[t].result.tag = "entry"
        /\ tasks[t].result.content = hist[tasks[t].url][2].content

\* a get() that is past its catch block: it found an artifact missing
Healing(tk) ==
    tk.kind = "get" /\ tk.fn = "get" /\ tk.pc \in {"open", "write", "rename"}

C5_CrashAtomicity ==
    [][/\ \A t \in Tasks :
             (/\ tasks[t].fn = "set"
              /\ tasks[t].solo
              /\ (proc' = "down" \/ tasks'[t].solo))
             => LET cp == contentPathOf(hashURL(tasks[t].url))
                IN  \/ files'[cp] = files[cp]
                    \/ files'[cp] = File(tasks[t].content)
       /\ (proc # "down" /\ proc' = "down") => files' = files]_vars

\* the process died inside a set of the empty payload, after it opened the
\* temporary content file and before the rename: the final path still holds
\* the one-byte payload of the set before it
C5_Witness ==
    \E u \in URLS :
        /\ proc = "down"
        /\ files[TempPath(contentPathOf(hashURL(u)))].ex
        /\ files[contentPathOf(hashURL(u))] = File(<<1>>)
        /\ files[metaPathOf(hashURL(u))].ex
        /\ files[indexPath].ex
        /\ ParsesAsIndex(files[indexPath].data)
        /\ IndexHas(ParseIndex(files[indexPath].data), hashURL(u))

\* the URLs whose set calls returned, by `hist`
SetUrls == {u \in URLS : hist[u] # <<>>}

\* C6 (list): list() reads no file and changes neither the directory nor
\* the index; and when all that happened to a fresh cache are set calls that
\* returned (none for the same URL overlapping), it returns exactly one
\* {url, byteSize} record for each URL set, nothing else, and the byteSize
\* is the length of the payload of the last set for that URL.
C6_List ==
    [][\A t \in Tasks :
          (Returns(t) /\ tasks'[t].kind = "list")
          => LET l == tasks'[t].result.list
             IN  /\ files' = files
                 /\ index' = index
                 /\ (pure /\ \A s \in Tasks : tasks[s].fn # "set")
                    => /\ Len(l) = Cardinality(SetUrls)
                       /\ \A i \in 1..Len(l) : l[i].url \in SetUrls
                       /\ \A u \in SetUrls :
                             \E i \in 1..Len(l) :
                                /\ l[i] = [url |-> u,
                                           byteSize |->
                                               Len(Newest(u).content)]
                                /\ \A j \in 1..Len(l) :
                                      l[j].url = u => j = i]_vars

\* list() has returned two records, one of an empty payload
C6_Witness ==
    \E t \in Tasks :
        /\ tasks[t].kind = "list"
        /\ tasks[t].pc = "done"
        /\ pure
        /\ Cardinality(SetUrls) = 2
        /\ Len(tasks[t].result.list) = 2
        /\ \E i, j \in 1..2 :
              /\ tasks[t].result.list[i].byteSize = 0
              /\ tasks[t].result.list[j].byteSize = 1

\* C4 (persistence across restart): once the process has been restarted on
\* the same directory, a /GetURL request for a URL whose set had returned
\* before the restart is served from the cache: it never reaches fetchURL
\* and it answers with the payload of the last set for that URL.
C4_Persistence ==
    [][\A t \in Tasks :
          (/\ faults > 0
           /\ proc' = "up"
           /\ tasks'[t].kind = "geturl"
           /\ tasks'[t].url \in URLS
           /\ tasks'[t] # tasks[t]
           /\ tasks'[t].solo
           /\ hist[tasks'[t].url] # <<>>)
          => /\ ~tasks'[t].fetched
             /\ tasks'[t].pc = "done"
                => /\ tasks'[t].result.tag = "hit"
                   /\ tasks'[t].result.content =
                         Newest(tasks'[t].url).content]_vars

Is2xx(statusCode) == statusCode \in 200..299

\* every call inside cache.set carries a 2xx response, and every metadata
\* file that parses records a 2xx status
StoredAre2xx ==
    /\ \A t \in Tasks :
          tasks[t].fn = "set" => Is2xx(tasks[t].resp.statusCode)
    /\ \A h \in Hashes :
          (/\ files[metaPathOf(h)].ex
           /\ ParsesAsMeta(files[metaPathOf(h)].data))
          => Is2xx(MemberOf(files[metaPathOf(h)].data, "statusCode"))

\* a record enters the index of the running server only from a call inside
\* cache.set; a step of a request inside fetchURL changes neither the index
\* nor any file, and goes on to cache.set only with a 2xx status
StoresOnly2xx ==
    /\ (proc = "up" /\ index' # index)
       => \A i \in 1..Len(index') :
             (\A j \in 1..Len(index) : index[j] # index'[i])
             => \E t \in Tasks :
                   /\ tasks[t].fn = "set"
                   /\ Is2xx(tasks[t].resp.statusCode)
                   /\ index'[i] = IndexRecord(tasks[t])
    /\ \A t \in Tasks :
          (tasks[t].fn = "fetch" /\ tasks'[t] # tasks[t] /\ proc' = "up")
          => /\ files' = files
             /\ index' = index
             /\ tasks'[t].fn = "set" => Is2xx(tasks[t].resp.statusCode)
             /\ tasks'[t].fn # "set"
                => \/ tasks'[t].fn = "fetch"
                   \/ /\ tasks'[t].pc = "done"
                      /\ tasks'[t].result.tag \in {"upstream", "failed"}

\* C7 (only 2xx responses are cached): in every state, what is being stored
\* and what the metadata files record came from a 2xx answer; a record
\* enters the index only from cache.set; and a request whose fetch is
\* answered with another status, fails or times out never calls cache.set
\* and leaves the index and every file as they were.
C7_Only2xx == []StoredAre2xx /\ [][StoresOnly2xx]_vars

\* a 299 answer is in the cache and a 300 answer has been passed on unstored
C7_Witness ==
    \E t \in Tasks, u \in URLS :
        /\ tasks[t].pc = "done"
        /\ tasks[t].result.tag = "upstream"
        /\ tasks[t].result.code = 300
        /\ ~IndexHas(index, hashURL(tasks[t].url))
        /\ ~files[contentPathOf(hashURL(tasks[t].url))].ex
        /\ IndexHas(index, hashURL(u))
        /\ files[metaPathOf(hashURL(u))].ex
        /\ ParsesAsMeta(files[metaPathOf(hashURL(u))].data)
        /\ ParseMeta(files[metaPathOf(hashURL(u))].data).statusCode = 299

\* what a read of get()'s Promise.all has, or gets in this step, of file p
ReadOf(rd, p) == IF rd.st = "ok" THEN rd.data ELSE files[p].data

C9_FetchTimeout ==
    \A t \in Tasks :
        tasks[t].pc \in {"fetch_headers", "fetch_body"} => tasks[t].timer

\* C10 (startup index handling): when readFile finds no index.json,
\* initializeCache makes the index empty, and when it returns the complete
\* document of the index is at index.json; when index.json exists, the
\* server comes up only with the index parsed from it, and otherwise
\* initializeCache fails and no file has changed.
C10_Startup ==
    [][\A t \in Tasks :
          /\ (/\ tasks[t].pc = "init_read"
              /\ tasks'[t] # tasks[t]
              /\ proc' # "down")
             => IF ~files[indexPath].ex
                THEN /\ index' = <<>>
                     /\ proc' = "up"
                        => files'[indexPath] = File(StringifyIndex(<<>>))
                ELSE /\ files' = files
                     /\ proc' \in {"up", "failed"}
                     /\ proc' = "up"
                        => /\ ParsesAsIndex(files[indexPath].data)
                           /\ index' = ParseIndex(files[indexPath].data)
                     /\ ~ParsesAsIndex(files[indexPath].data)
                        => /\ proc' = "failed"
                           /\ tasks'[t].result.tag = "aborted"
          /\ (tasks[t].kind = "init" /\ InFlight(tasks[t]) /\ proc' = "up")
             => /\ files'[indexPath].ex
                /\ ParsesAsIndex(files'[indexPath].data)
                /\ ParseIndex(files'[indexPath].data) = index'
                /\ \A p \in ArtifactPaths : files'[p] = files[p]]_vars

\* the start of the server has failed on an index.json that does not parse,
\* and the file is still there as it was
C10_Witness ==
    /\ proc = "failed"
    /\ files[indexPath].ex
    /\ ~ParsesAsIndex(files[indexPath].data)
    /\ index = <<>>

\* both artifacts of key `hash` are at their final paths
ArtifactsPresent(hash) ==
    files[contentPathOf(hash)].ex /\ files[metaPathOf(hash)].ex

\* C11 (no dangling index reference): with no file deleted from outside, in
\* every state (calls interleaved, the process dead after a crash, the
\* server restarted) every key of the in-memory index, and every key of an
\* index.json that parses, has its content file and its metadata file at
\* their final paths.
C11_NoDanglingRecord ==
    /\ \A i \in 1..Len(index) : ArtifactsPresent(index[i].hash)
    /\ (files[indexPath].ex /\ ParsesAsIndex(files[indexPath].data))
       => \A i \in 1..Len(ParseIndex(files[indexPath].data)) :
             ArtifactsPresent(ParseIndex(files[indexPath].data)[i].hash)

\* the process died inside a set: both artifacts of one URL are on disk and
\* index.json has no record of it, while it has the record of another URL,
\* whose artifacts are there
C11_Witness ==
    \E u, v \in URLS :
        /\ proc = "down"
        /\ ArtifactsPresent(hashURL(u))
        /\ ParsesAsIndex(files[indexPath].data)
        /\ ~IndexHas(ParseIndex(files[indexPath].data), hashURL(u))
        /\ IndexHas(ParseIndex(files[indexPath].data), hashURL(v))
        /\ ArtifactsPresent(hashURL(v))

\* C12 (entry consistency): whenever get returns an entry, its metadata and
\* its content come from the same set call, so that metadata.byteSize is
\* the length of the content returned; also when the get overlaps a set
\* that overwrites the URL.
C12_EntryConsistency ==
    [][\A t \in Tasks :
          (/\ Returns(t)
           /\ tasks'[t].kind = "get"
           /\ tasks'[t].result.tag = "entry")
          => tasks'[t].result.metadata.byteSize =
                Len(tasks'[t].result.content)]_vars

\* C13 (concurrent sets never expose corrupted content): whenever the file
\* at the final content path of a URL appears or changes, it then holds,
\* whole, the payload of a set call for that URL that is in flight; never a
\* truncated file.
C13_NoCorruptContent ==
    [][\A u \in URLS :
          LET cp == contentPathOf(hashURL(u))
          IN  (files'[cp] # files[cp] /\ files'[cp].ex)
              => \E t \in Tasks :
                    /\ tasks[t].fn = "set"
                    /\ tasks[t].url = u
                    /\ files'[cp].data = tasks[t].content]_vars

\* C14 (index convergence): whenever the server is up and no call is in
\* flight, index.json holds the document of the in-memory index.
C14_IndexConvergence ==
    (proc = "up" /\ \A t \in Tasks : ~InFlight(tasks[t]))
    => files[indexPath] = File(StringifyIndex(index))

\* C15 (the index document is never observable partial): in every state
\* index.json is absent or parses as the document of an index.
C15_IndexNeverPartial ==
    files[indexPath].ex => ParsesAsIndex(files[indexPath].data)

\* C16 (index-gated miss): a get for a URL whose key the in-memory index
\* does not hold returns absent in the step it is called in: it starts no
\* read, changes no file and leaves the index as it is, whatever is on
\* disk.  (Called directly, get returns null; called by the /GetURL handler,
\* the handler goes on to fetchURL.)
C16_IndexGatedMiss ==
    [][\A t \in Tasks :
          (/\ calls' > calls
           /\ CanCall(t)
           /\ tasks'[t].kind \in {"get", "geturl"}
           /\ tasks'[t].url \in URLS
           /\ ~IndexHas(index, hashURL(tasks'[t].url)))
          => /\ files' = files
             /\ index' = index
             /\ tasks'[t].fn # "get"
             /\ tasks'[t].metaData = NoRead
             /\ tasks'[t].contentData = NoRead
             /\ IF tasks'[t].kind = "get"
                THEN /\ tasks'[t].pc = "done"
                     /\ tasks'[t].result.tag = "null"
                ELSE tasks'[t].pc = "fetch_headers"]_vars

\* after a crash inside a set and a restart, a request for the URL has
\* missed although both artifacts of its key are on disk
C16_Witness ==
    \E t \in Tasks :
        /\ tasks[t].kind = "geturl"
        /\ tasks[t].pc = "fetch_headers"
        /\ faults > 0
        /\ ArtifactsPresent(hashURL(tasks[t].url))
        /\ ~IndexHas(index, hashURL(tasks[t].url))

\* C17 (self-healing removes only stale records): while the process runs, a
\* key leaves the in-memory index only in the step in which a get for that
\* key, having found an artifact missing, runs its catch block, and never
\* while both artifacts of the key are at their final paths.
C17_OnlyStaleRemoved ==
    [][(proc = "up" /\ proc' = "up")
       => \A h \in Hashes :
             (IndexHas(index, h) /\ ~IndexHas(index', h))
             => /\ ~ArtifactsPresent(h)
                /\ \E t \in Tasks :
                      /\ tasks[t].fn = "get"
                      /\ tasks[t].pc = "get_enoent"
                      /\ hashURL(tasks[t].url) = h
                      /\ Healing(tasks'[t])]_vars

\* C18 (concurrent calls do not fail each other): with nothing modified
\* from outside, no call fails at the rename that ends one of its writes,
\* whatever other calls are in flight, and the URL of every request that
\* stored its answer has a record in the index.
C18_NoMutualFailure ==
    [][\A t \in Tasks :
          /\ (tasks[t].pc = "rename" /\ tasks'[t].pc = "done")
             => tasks'[t].result.tag \in {"ok", "stored", "null", "ready"}
          /\ (tasks'[t].pc = "done" /\ tasks'[t].result.tag = "stored")
             => IndexHas(index', hashURL(tasks'[t].url))]_vars

\* C19 (listed size matches stored content): whenever no set call is in
\* flight and nothing was deleted from outside, every record of the index
\* has a content file, and its byteSize is the length of that file.
C19_ListedSizeMatches ==
    (proc = "up" /\ faults = 0 /\ \A t \in Tasks : tasks[t].fn # "set")
    => \A i \in 1..Len(index) :
          /\ files[contentPathOf(index[i].hash)].ex
          /\ index[i].byteSize = Len(files[contentPathOf(index[i].hash)].data)

\* C20 (a failed set leaves the index unchanged): when a set call fails, the
\* in-memory index does not hold the record of that call.
C20_FailedSetNoRecord ==
    [][\A t \in Tasks :
          (/\ tasks[t].fn = "set"
           /\ tasks'[t].pc = "done"
           /\ tasks'[t].result.tag \in {"error", "failed"})
          => \A i \in 1..Len(index') : index'[i] # IndexRecord(tasks[t])]_vars

====
